---- MODULE Spec2Model ----
(***************************************************************************)
(* Model of basictracer-javascript: BasicTracer (src/src/tracer.js),       *)
(* BasicSpan (src/unnamed/part_000) and the collaborators the tracer       *)
(* imports (propagation, sampler, recorder), which are modelled from the   *)
(* specification of their contracts.                                       *)
(***************************************************************************)
EXTENDS Integers, Sequences, FiniteSets, TLC

(* ---------------------------------------------------------------------- *)
(* Bounds                                                                  *)
(* ---------------------------------------------------------------------- *)
MaxSpans == 2
MaxRecorded == 1

(* ---------------------------------------------------------------------- *)
(* Values                                                                  *)
(* ---------------------------------------------------------------------- *)
\* JavaScript's undefined: the value of a property nobody assigned.  One
\* representative per type, so that values stay comparable.
Undefined == "undefined"
UndefinedId == <<>>
UndefinedString == <<"undefined">>

\* No span handle (an omitted `parent` field, an absent return value).
NoSpan == 0

\* The two format tokens of the interface object, and a token that is neither.
FORMAT_TEXT_MAP == "text_map"
FORMAT_BINARY == "binary"
FORMAT_OTHER == "http_header"
Formats == {FORMAT_TEXT_MAP, FORMAT_BINARY, FORMAT_OTHER}

\* The interface object handed to setInterface.
InterfaceObject == [FORMAT_TEXT_MAP |-> FORMAT_TEXT_MAP, FORMAT_BINARY |-> FORMAT_BINARY]

\* 64-bit identifiers are kept as four 16-bit limbs, most significant first
\* (long.js keeps two 32-bit halves; no native 64-bit integer is assumed).
IdOne == <<0, 0, 0, 1>>
IdMaxMinusOne == <<65535, 65535, 65535, 65534>>
IdMixed == <<4660, 0, 43981, 256>>

\* Baggage keys and values are strings, kept as sequences of characters.
KeyA == <<"a">>
KeyOta == <<"o", "t", "a">>
Val1 == <<"1">>
ValV1 == <<"v", "1">>
EmptyBaggage == [k \in {} |-> <<>>]
BaggageA == [k \in {KeyA} |-> Val1]
BaggageTwo == [k \in {KeyA, KeyOta} |-> IF k = KeyA THEN Val1 ELSE ValV1]

(* ---------------------------------------------------------------------- *)
(* Text-map codec (TextMapPropagator, modelled from the specification)     *)
(* ---------------------------------------------------------------------- *)
HexDigits == <<"0", "1", "2", "3", "4", "5", "6", "7",
               "8", "9", "a", "b", "c", "d", "e", "f">>

HexOfLimb(n) ==
    << HexDigits[(n \div 4096) + 1], HexDigits[((n \div 256) % 16) + 1],
       HexDigits[((n \div 16) % 16) + 1], HexDigits[(n % 16) + 1] >>

HexOfId(id) == HexOfLimb(id[1]) \o HexOfLimb(id[2]) \o HexOfLimb(id[3]) \o HexOfLimb(id[4])

IsHexDigit(c) == \E i \in 1..16 : HexDigits[i] = c

HexValue(c) == (CHOOSE i \in 1..16 : HexDigits[i] = c) - 1

IsHexId(s) == Len(s) = 16 /\ \A i \in 1..16 : IsHexDigit(s[i])

LimbOfHex(s, k) ==
    HexValue(s[k]) * 4096 + HexValue(s[k + 1]) * 256 + HexValue(s[k + 2]) * 16 + HexValue(s[k + 3])

IdOfHex(s) == << LimbOfHex(s, 1), LimbOfHex(s, 5), LimbOfHex(s, 9), LimbOfHex(s, 13) >>

\* The carrier key of the identity entry and the namespace prefix of baggage entries.
IdentityKey == <<"o", "t", "-", "i", "d">>
BaggagePrefix == <<"o", "t", "-", "b", "-">>
FieldDelimiter == ":"
AbsentParent == <<"-">>

IdentityValue(ctx) ==
    HexOfId(ctx.traceId) \o <<FieldDelimiter>> \o HexOfId(ctx.spanId) \o <<FieldDelimiter>>
    \o (IF ctx.parentId = UndefinedId THEN AbsentParent ELSE HexOfId(ctx.parentId))
    \o <<FieldDelimiter>> \o (IF ctx.sampled = "true" THEN <<"1">> ELSE <<"0">>)

\* inject: one identity entry plus one entry per baggage item; additive on the map.
TextMapInject(ctx, map) ==
    LET written == {IdentityKey} \cup {BaggagePrefix \o k : k \in DOMAIN ctx.baggage}
    IN [key \in (DOMAIN map) \cup written |->
          IF key = IdentityKey THEN IdentityValue(ctx)
          ELSE IF key \in written
               THEN ctx.baggage[SubSeq(key, Len(BaggagePrefix) + 1, Len(key))]
               ELSE map[key]]

\* The fields of a delimited string: the pieces between consecutive delimiters.
SplitFields(s) ==
    LET cuts == {i \in 1..Len(s) : s[i] = FieldDelimiter}
        n == Cardinality(cuts)
        Cut(k) == IF k = 0 THEN 0
                  ELSE IF k = n + 1 THEN Len(s) + 1
                  ELSE CHOOSE p \in cuts : Cardinality({j \in cuts : j <= p}) = k
    IN [k \in 1..(n + 1) |-> SubSeq(s, Cut(k - 1) + 1, Cut(k) - 1)]

HasBaggagePrefix(key) ==
    Len(key) > Len(BaggagePrefix) /\ SubSeq(key, 1, Len(BaggagePrefix)) = BaggagePrefix

\* The result of a codec's extract: a context, "no context", or a failure.
NoContextResult == [status |-> "none"]
MalformedResult == [status |-> "MalformedCarrier"]
ContextResult(ctx) == [status |-> "ok", ctx |-> ctx]

\* Bind(x, F) is F(x) with x evaluated once, as `let v = x` in the code.
Bind(x, F(_)) == CHOOSE res \in {F(v) : v \in {x}} : TRUE

\* The context the four identity fields and the namespaced entries stand for.
ParseIdentity(f, map) ==
    IF Len(f) # 4 THEN NoContextResult
    ELSE IF ~ (IsHexId(f[1]) /\ IsHexId(f[2])
               /\ (f[3] = AbsentParent \/ IsHexId(f[3]))
               /\ f[4] \in {<<"0">>, <<"1">>})
    THEN NoContextResult
    ELSE ContextResult(
           [traceId |-> IdOfHex(f[1]),
            spanId |-> IdOfHex(f[2]),
            parentId |-> IF f[3] = AbsentParent THEN UndefinedId ELSE IdOfHex(f[3]),
            sampled |-> IF f[4] = <<"1">> THEN "true" ELSE "false",
            baggage |-> [n \in {SubSeq(key, Len(BaggagePrefix) + 1, Len(key)) :
                                  key \in {k \in DOMAIN map : HasBaggagePrefix(k)}}
                           |-> map[BaggagePrefix \o n]]])

\* extract: the context written in the map, or "no context" when the identity
\* entry is missing or malformed.
TextMapExtract(map) ==
    IF IdentityKey \notin DOMAIN map THEN NoContextResult
    ELSE Bind(SplitFields(map[IdentityKey]), LAMBDA f : ParseIdentity(f, map))

(* ---------------------------------------------------------------------- *)
(* Binary codec (BinaryPropagator, modelled from the specification)        *)
(* ---------------------------------------------------------------------- *)
\* UTF-8 code units of the characters that occur in baggage (all ASCII).
Alphabet == << <<"1", 49>>, <<"a", 97>>, <<"o", 111>>, <<"t", 116>>, <<"v", 118>> >>

CharCode(c) == Alphabet[CHOOSE i \in 1..Len(Alphabet) : Alphabet[i][1] = c][2]

CharOfCode(b) ==
    IF \E i \in 1..Len(Alphabet) : Alphabet[i][2] = b
    THEN Alphabet[CHOOSE i \in 1..Len(Alphabet) : Alphabet[i][2] = b][1]
    ELSE "?"

StringBytes(s) == [i \in 1..Len(s) |-> CharCode(s[i])]

StringOfBytes(b) == [i \in 1..Len(b) |-> CharOfCode(b[i])]

\* Big-endian bytes of an identifier, and back.
IdBytes(id) ==
    << id[1] \div 256, id[1] % 256, id[2] \div 256, id[2] % 256,
       id[3] \div 256, id[3] % 256, id[4] \div 256, id[4] % 256 >>

IdOfBytes(b) ==
    << b[1] * 256 + b[2], b[3] * 256 + b[4], b[5] * 256 + b[6], b[7] * 256 + b[8] >>

ZeroIdBytes == <<0, 0, 0, 0, 0, 0, 0, 0>>

\* Variable-length integer: seven bits per byte, least significant group first,
\* the high bit set on every byte but the last.
RECURSIVE EncodeVarint(_)
EncodeVarint(n) ==
    IF n < 128 THEN <<n>> ELSE <<128 + (n % 128)>> \o EncodeVarint(n \div 128)

RECURSIVE ItemsBytes(_, _)
ItemsBytes(bag, keys) ==
    IF keys = {} THEN <<>>
    ELSE Bind(CHOOSE x \in keys : TRUE,
              LAMBDA k : EncodeVarint(Len(k)) \o StringBytes(k)
                         \o EncodeVarint(Len(bag[k])) \o StringBytes(bag[k])
                         \o ItemsBytes(bag, keys \ {k}))

\* inject: the fixed layout
\*   traceId(8) spanId(8) parentPresent(1) parentId(8) sampled(1) count items...
BinaryInject(ctx) ==
    IdBytes(ctx.traceId) \o IdBytes(ctx.spanId)
    \o (IF ctx.parentId = UndefinedId THEN <<0>> \o ZeroIdBytes
        ELSE <<1>> \o IdBytes(ctx.parentId))
    \o (IF ctx.sampled = "true" THEN <<1>> ELSE <<0>>)
    \o EncodeVarint(Cardinality(DOMAIN ctx.baggage))
    \o ItemsBytes(ctx.baggage, DOMAIN ctx.baggage)

\* A reader over a buffer: `next` is the position of the next unread byte,
\* `out` what the last read produced, `top` the highest position any read has
\* addressed.  Every read checks its bounds before it is performed.
StartReader == [ok |-> TRUE, next |-> 1, out |-> <<>>, top |-> 0]

FailReader(r) == [ok |-> FALSE, next |-> r.next, out |-> <<>>, top |-> r.top]

Take(buf, r, n) ==
    IF r.ok /\ r.next + n - 1 <= Len(buf)
    THEN [ok |-> TRUE, next |-> r.next + n, out |-> SubSeq(buf, r.next, r.next + n - 1),
          top |-> IF n > 0 THEN r.next + n - 1 ELSE r.top]
    ELSE FailReader(r)

\* At most this many bytes make up one variable-length integer.
MaxVarintBytes == 4

RECURSIVE TakeVarintFrom(_, _, _, _, _)
TakeVarintFrom(buf, r, mult, acc, used) ==
    Bind(Take(buf, r, 1), LAMBDA b :
       IF ~ b.ok \/ used >= MaxVarintBytes THEN FailReader(r)
       ELSE IF b.out[1] < 128
            THEN [ok |-> TRUE, next |-> b.next, out |-> <<acc + b.out[1] * mult>>,
                  top |-> b.top]
            ELSE TakeVarintFrom(buf, b, mult * 128, acc + (b.out[1] - 128) * mult, used + 1))

TakeVarint(buf, r) == TakeVarintFrom(buf, r, 1, 0, 0)

\* One length-prefixed string.
TakeString(buf, r) ==
    Bind(TakeVarint(buf, r), LAMBDA n :
       IF ~ n.ok THEN FailReader(r)
       ELSE Bind(Take(buf, n, n.out[1]), LAMBDA body :
               IF ~ body.ok THEN FailReader(n)
               ELSE [ok |-> TRUE, next |-> body.next, out |-> StringOfBytes(body.out),
                     top |-> body.top]))

RECURSIVE TakeItems(_, _, _, _)
TakeItems(buf, r, count, bag) ==
    IF count = 0 THEN [ok |-> TRUE, next |-> r.next, out |-> bag, top |-> r.top]
    ELSE Bind(TakeString(buf, r), LAMBDA k :
           IF ~ k.ok THEN FailReader(k)
           ELSE Bind(TakeString(buf, k), LAMBDA v :
                   IF ~ v.ok THEN FailReader(v)
                   ELSE Bind([x \in (DOMAIN bag) \cup {k.out} |->
                                 IF x = k.out THEN v.out ELSE bag[x]],
                             LAMBDA more : TakeItems(buf, v, count - 1, more))))

\* The reader states of one extract, field by field.
BinaryRead(buf) ==
    Bind(Take(buf, StartReader, 8), LAMBDA trace :
    Bind(Take(buf, trace, 8), LAMBDA span :
    Bind(Take(buf, span, 1), LAMBDA flag :
    Bind(Take(buf, flag, 8), LAMBDA parent :
    Bind(Take(buf, parent, 1), LAMBDA sampled :
    Bind(TakeVarint(buf, sampled), LAMBDA count :
    Bind(IF count.ok THEN TakeItems(buf, count, count.out[1], EmptyBaggage)
         ELSE FailReader(count), LAMBDA items :
       [trace |-> trace, span |-> span, flag |-> flag, parent |-> parent,
        sampled |-> sampled, count |-> count, items |-> items])))))))

\* The context the reader states of a complete read stand for.
ContextRead(r) ==
    [traceId |-> IdOfBytes(r.trace.out),
     spanId |-> IdOfBytes(r.span.out),
     parentId |-> IF r.flag.out[1] = 0 THEN UndefinedId ELSE IdOfBytes(r.parent.out),
     sampled |-> IF r.sampled.out[1] = 0 THEN "false" ELSE "true",
     baggage |-> r.items.out]

\* extract: the context, or MalformedCarrier when a read would pass the end;
\* `top` is the highest buffer position the extract addressed.
BinaryExtractTop(buf) ==
    Bind(BinaryRead(buf), LAMBDA r :
       IF ~ r.items.ok THEN [status |-> "MalformedCarrier", top |-> r.items.top]
       ELSE [status |-> "ok", ctx |-> ContextRead(r), top |-> r.items.top])

BinaryTop(buf) == BinaryExtractTop(buf).top

BinaryExtract(buf) ==
    Bind(BinaryExtractTop(buf), LAMBDA e :
       IF e.status = "ok" THEN ContextResult(e.ctx) ELSE MalformedResult)

(* ---------------------------------------------------------------------- *)
(* Sampler (modelled from the specification)                               *)
(* ---------------------------------------------------------------------- *)
\* The rate 0.5 as a threshold on the hashed id: 0.5 * 65536.
SamplerThreshold == 32768

\* The fixed hash of a trace id, a value in [0, 65536).
SamplerHash(traceId) == (traceId[1] * 31 + traceId[4]) % 65536

SamplerIsSample(traceId) == IF SamplerHash(traceId) < SamplerThreshold THEN "true" ELSE "false"

(* ---------------------------------------------------------------------- *)
(* State                                                                   *)
(* ---------------------------------------------------------------------- *)
VARIABLES
    interface,   \* tracer._interface: Undefined until setInterface installs one
    spans,       \* the span objects created so far, by handle 1..Len(spans)
    finished,    \* history: the handles on which finish() has been called
    recorded,    \* the spans that reached Recorder.record, in call order
    carrier,     \* the carrier last handed to inject or join, after the call
    last         \* the last call: its arguments, collaborators and outcome

vars == <<interface, spans, finished, recorded, carrier, last>>

Handles == 1..Len(spans)

\* A carrier object: the string entries of a text map and a `buffer` field.
\* `by`, `format` and `input` are history: the span, the format and the
\* carrier given to the inject call that wrote it.
EmptyCarrier == [map |-> EmptyBaggage, buffer |-> <<>>, by |-> NoSpan, format |-> "", input |-> "empty"]

UnrelatedKey == <<"h">>
UnrelatedCarrier == [EmptyCarrier EXCEPT !.map = [k \in {UnrelatedKey} |-> <<"v">>], !.input = "unrelated"]

\* The record of a call; the actions override the fields they concern.
\*   invoked: the collaborators the call invoked (propagators, sampler, recorder)
\*   changed: whether the call changed a span or the carrier it was given
\*   top, len: the highest buffer position a binary extract addressed, and the
\*             length of that buffer
NoCall ==
    [op |-> "", span |-> NoSpan, parent |-> NoSpan, format |-> "", input |-> "",
     outcome |-> "ok", ret |-> NoSpan, value |-> UndefinedString, invoked |-> {},
     changed |-> FALSE, afterFinish |-> FALSE, top |-> 0, len |-> 0]

Init ==
    /\ interface = Undefined
    /\ spans = <<>>
    /\ finished = {}
    /\ recorded = <<>>
    /\ carrier = EmptyCarrier
    /\ last = NoCall

(* ---------------------------------------------------------------------- *)
(* BasicSpan (src/unnamed/part_000)                                        *)
(* ---------------------------------------------------------------------- *)
\* new BasicSpan(tracer, fields): the constructor assigns `_tracer` and nothing
\* else, so every property of the data model is left undefined.  `origin`,
\* `nameArg` and `parentArg` are history: the call that made the span.
BasicSpan(operationName, parent) ==
    [origin |-> "startSpan", nameArg |-> operationName, parentArg |-> parent,
     operationName |-> Undefined, traceId |-> UndefinedId, spanId |-> UndefinedId,
     parentId |-> UndefinedId, sampled |-> Undefined, baggage |-> EmptyBaggage]

HasContext(span) == span.traceId # UndefinedId

ContextOf(span) ==
    [traceId |-> span.traceId, spanId |-> span.spanId, parentId |-> span.parentId,
     sampled |-> span.sampled, baggage |-> span.baggage]

\* Faulty variant: setOperationName stores the name it is given.
SpanAfterMutatorStores(op, span) ==
    IF op = "setOperationName" THEN [span EXCEPT !.operationName = "renamed"] ELSE span

\* The bodies of setOperationName, setTag, addTags, setBaggageItem and log are
\* empty: the span after the call is the span before it.
SpanAfterMutator(op, span) == span

\* getBaggageItem has an empty body: it returns undefined for every key.
GetBaggageItemResult(span, key) == UndefinedString

\* finish has an empty body: it hands nothing to Tracer.record.
FinishHandoff(s) == <<>>

MutatorNames == {"setOperationName", "setTag", "addTags", "setBaggageItem", "log"}

SpanMutator(op, s) ==
    /\ s \in Handles
    /\ spans' = [spans EXCEPT ![s] = SpanAfterMutator(op, spans[s])]
    /\ last' = [NoCall EXCEPT !.op = op, !.span = s, !.afterFinish = (s \in finished),
                              !.changed = (spans'[s] # spans[s])]
    /\ UNCHANGED <<interface, finished, recorded, carrier>>

SetOperationName(s) == SpanMutator("setOperationName", s)
SetTag(s) == SpanMutator("setTag", s)
AddTags(s) == SpanMutator("addTags", s)
SetBaggageItem(s) == SpanMutator("setBaggageItem", s)
Log(s) == SpanMutator("log", s)

GetBaggageItem(s, key) ==
    /\ s \in Handles
    /\ last' = [NoCall EXCEPT !.op = "getBaggageItem", !.span = s,
                              !.afterFinish = (s \in finished),
                              !.value = GetBaggageItemResult(spans[s], key)]
    /\ UNCHANGED <<interface, spans, finished, recorded, carrier>>

Finish(s) ==
    /\ s \in Handles
    /\ Len(recorded) + Len(FinishHandoff(s)) <= MaxRecorded
    /\ finished' = finished \cup {s}
    /\ recorded' = recorded \o FinishHandoff(s)
    /\ spans' = spans
    /\ last' = [NoCall EXCEPT !.op = "finish", !.span = s, !.afterFinish = (s \in finished),
                              !.invoked = IF FinishHandoff(s) = <<>> THEN {} ELSE {"recorder"},
                              !.changed = (spans'[s] # spans[s])]
    /\ UNCHANGED <<interface, carrier>>

(* ---------------------------------------------------------------------- *)
(* Propagators' join and the carriers a process receives                   *)
(* ---------------------------------------------------------------------- *)
\* The span a propagator's join builds from an extracted context: a child of
\* the remote span, with a fresh span id.
JoinedSpan(operationName, ctx, fresh) ==
    [origin |-> "join", nameArg |-> operationName, parentArg |-> NoSpan,
     operationName |-> operationName, traceId |-> ctx.traceId, spanId |-> fresh,
     parentId |-> ctx.spanId, sampled |-> ctx.sampled, baggage |-> ctx.baggage]

FreshIds == {IdMixed, IdMaxMinusOne}

\* The contexts of remote spans whose carriers arrive from other processes.
RemoteRoot ==
    [traceId |-> IdOne, spanId |-> IdMixed, parentId |-> UndefinedId,
     sampled |-> "true", baggage |-> BaggageA]
RemoteChild ==
    [traceId |-> IdMaxMinusOne, spanId |-> IdOne, parentId |-> IdMixed,
     sampled |-> "false", baggage |-> BaggageTwo]
RemoteContexts == {RemoteRoot, RemoteChild}

TextCarrierOf(ctx) == [EmptyCarrier EXCEPT !.map = TextMapInject(ctx, EmptyBaggage)]
BinaryCarrierOf(ctx) == [EmptyCarrier EXCEPT !.buffer = BinaryInject(ctx)]

ValidCarriers == {TextCarrierOf(ctx) : ctx \in RemoteContexts}
                 \cup {BinaryCarrierOf(ctx) : ctx \in RemoteContexts}

\* Every proper prefix of a valid encoding.
TruncatedCarriers ==
    UNION {{[EmptyCarrier EXCEPT !.buffer = SubSeq(BinaryInject(ctx), 1, k)] :
               k \in 1..(Len(BinaryInject(ctx)) - 1)} : ctx \in RemoteContexts}
    \cup UNION {{[EmptyCarrier EXCEPT !.map = [key \in {IdentityKey} |->
                                                 SubSeq(IdentityValue(ctx), 1, k)]] :
               k \in 0..(Len(IdentityValue(ctx)) - 1)} : ctx \in RemoteContexts}

\* The position of the baggage count in the binary layout, and of the first
\* key length after it.
CountPosition == 27
FirstKeyLengthPosition == 28

\* Encodings that declare more than they hold: one item more than present, or a
\* first key longer than the rest of the buffer.
OverlongCarriers ==
    {[EmptyCarrier EXCEPT !.buffer =
         [BinaryInject(ctx) EXCEPT ![CountPosition] = @ + 1]] : ctx \in RemoteContexts}
    \cup {[EmptyCarrier EXCEPT !.buffer =
         [BinaryInject(ctx) EXCEPT ![FirstKeyLengthPosition] = 100]] :
            ctx \in {c \in RemoteContexts : c.baggage # EmptyBaggage}}

\* A carrier handed to join, with the kind of content it holds.
MalformedJoinInputs ==
    {[kind |-> "missing", c |-> EmptyCarrier], [kind |-> "missing", c |-> UnrelatedCarrier]}
    \cup {[kind |-> "truncated", c |-> c] : c \in TruncatedCarriers}
    \cup {[kind |-> "overlong", c |-> c] : c \in OverlongCarriers}

RemoteJoinInputs == {[kind |-> "valid", c |-> c] : c \in ValidCarriers}

RemoteTextInputs == {[kind |-> "valid", c |-> TextCarrierOf(ctx)] : ctx \in RemoteContexts}

\* A mid-field cut of each encoding, standing for the truncated carriers.
SampleTruncatedCarriers ==
    {[EmptyCarrier EXCEPT !.buffer = SubSeq(BinaryInject(RemoteChild), 1, 30)],
     [EmptyCarrier EXCEPT !.map = [key \in {IdentityKey} |->
                                     SubSeq(IdentityValue(RemoteRoot), 1, 20)]]}

JoinInputs ==
    {[kind |-> "inflight", c |-> carrier]}
    \cup RemoteJoinInputs
    \cup {[kind |-> "missing", c |-> EmptyCarrier]}
    \cup {[kind |-> "truncated", c |-> c] : c \in SampleTruncatedCarriers}

(* ---------------------------------------------------------------------- *)
(* BasicTracer (src/src/tracer.js)                                         *)
(* ---------------------------------------------------------------------- *)
OperationA == "op-a"
OperationB == "op-b"

SetInterface ==
    /\ interface' = "opentracing"
    /\ last' = [NoCall EXCEPT !.op = "setInterface"]
    /\ UNCHANGED <<spans, finished, recorded, carrier>>

\* The `parent` field of startSpan's argument: a span (0 when omitted), handed
\* over either as the implementation object or wrapped in an interface object
\* whose imp() returns it.
ParentArgs == {[span |-> h, wrapped |-> w] : h \in {NoSpan} \cup Handles, w \in BOOLEAN}

\* imp() of an interface object: the implementation span it wraps.
Imp(p) == p.span

ResolveParent(p) == IF p.span # NoSpan /\ p.wrapped THEN Imp(p) ELSE p.span

\* The collaborators startSpan invokes: none (the sampler is not asked).
StartSpanInvokes(parent) == {}

StartSpan(p) ==
    /\ p \in ParentArgs
    /\ Len(spans) < MaxSpans
    /\ spans' = Append(spans, BasicSpan(OperationA, ResolveParent(p)))
    /\ last' = [NoCall EXCEPT !.op = "startSpan", !.parent = p.span, !.ret = Len(spans) + 1,
                              !.invoked = StartSpanInvokes(ResolveParent(p))]
    /\ UNCHANGED <<interface, finished, recorded, carrier>>

\* Faulty variant: inject hands the binary format to the text-map propagator.
InjectDispatchBinaryAsText(inf, format) ==
    IF inf = Undefined THEN "TypeError"
    ELSE IF format = InterfaceObject.FORMAT_TEXT_MAP THEN "text"
    ELSE IF format = InterfaceObject.FORMAT_BINARY THEN "text"
    ELSE "none"

\* Faulty variant: inject compares the format with the tokens of a default interface
\* and so works before setInterface.
InjectDispatchDefaultInterface(inf, format) ==
    IF format = InterfaceObject.FORMAT_TEXT_MAP THEN "text"
    ELSE IF format = InterfaceObject.FORMAT_BINARY THEN "binary"
    ELSE "none"

\* Which propagator inject dispatches to: reading a token of an undefined
\* interface raises a TypeError; an unmatched token falls through both tests.
InjectDispatch(inf, format) ==
    IF inf = Undefined THEN "TypeError"
    ELSE IF format = InterfaceObject.FORMAT_TEXT_MAP THEN "text"
    ELSE IF format = InterfaceObject.FORMAT_BINARY THEN "binary"
    ELSE "none"

\* Faulty variant: join hands the binary format to the text-map propagator.
JoinDispatchBinaryAsText(inf, format) ==
    IF inf = Undefined THEN "TypeError"
    ELSE IF format = InterfaceObject.FORMAT_TEXT_MAP THEN "text"
    ELSE IF format = InterfaceObject.FORMAT_BINARY THEN "text"
    ELSE "none"

JoinDispatch(inf, format) ==
    IF inf = Undefined THEN "TypeError"
    ELSE IF format = InterfaceObject.FORMAT_TEXT_MAP THEN "text"
    ELSE IF format = InterfaceObject.FORMAT_BINARY THEN "binary"
    ELSE "none"

InjectInputs == {EmptyCarrier, UnrelatedCarrier}

Inject(s, format, c) ==
    /\ s \in Handles
    /\ format \in Formats
    /\ c \in InjectInputs
    /\ \E d \in {InjectDispatch(interface, format)} :
       \E written \in {(d \in {"text", "binary"}) /\ HasContext(spans[s])} :
       \E after \in {IF ~ written THEN c
                     ELSE IF d = "text"
                     THEN [c EXCEPT !.map = TextMapInject(ContextOf(spans[s]), c.map),
                                    !.by = s, !.format = format]
                     ELSE [c EXCEPT !.buffer = BinaryInject(ContextOf(spans[s])),
                                    !.by = s, !.format = format]} :
          /\ carrier' = after
          /\ last' = [NoCall EXCEPT !.op = "inject", !.span = s, !.format = format,
                        !.input = c.input,
                        !.outcome = IF d = "TypeError" THEN "TypeError"
                                    ELSE IF d = "none" \/ written THEN "ok"
                                    ELSE "unspecified",
                        !.invoked = IF d \in {"text", "binary"} THEN {d} ELSE {},
                        !.changed = (after.map # c.map \/ after.buffer # c.buffer)]
    /\ UNCHANGED <<interface, spans, finished, recorded>>

\* What the dispatched propagator's join finds in the carrier, with the
\* highest buffer position it addressed.
JoinExtract(d, c) ==
    IF d = "text" THEN Bind(TextMapExtract(c.map), LAMBDA r :
                          IF r.status = "ok"
                          THEN [status |-> "ok", ctx |-> r.ctx, top |-> 0]
                          ELSE [status |-> r.status, top |-> 0])
    ELSE IF d = "binary" THEN BinaryExtractTop(c.buffer)
    ELSE [status |-> "none", top |-> 0]

Join(format, in, fresh) ==
    /\ format \in Formats
    /\ fresh \in FreshIds
    /\ Len(spans) < MaxSpans
    /\ \E d \in {JoinDispatch(interface, format)} :
       \E res \in {JoinExtract(d, in.c)} :
       \E made \in {(d \in {"text", "binary"}) /\ (res.status = "ok")} :
          /\ spans' = IF made THEN Append(spans, JoinedSpan(OperationB, res.ctx, fresh))
                      ELSE spans
          /\ last' = [NoCall EXCEPT !.op = "join", !.format = format, !.input = in.kind,
                        !.outcome = IF d = "TypeError" THEN "TypeError"
                                    ELSE IF res.status = "MalformedCarrier"
                                    THEN "MalformedCarrier" ELSE "ok",
                        !.ret = IF made THEN Len(spans) + 1 ELSE NoSpan,
                        !.invoked = IF d \in {"text", "binary"} THEN {d} ELSE {},
                        !.top = res.top,
                        !.len = IF d = "binary" THEN Len(in.c.buffer) ELSE 0]
          /\ carrier' = in.c
    /\ UNCHANGED <<interface, finished, recorded>>

\* isSample(span, parent) hands both arguments to the sampler.
IsSample(s, p) ==
    /\ s \in Handles
    /\ p \in {NoSpan} \cup Handles
    /\ last' = [NoCall EXCEPT !.op = "isSample", !.span = s, !.parent = p,
                  !.invoked = {"sampler"},
                  !.outcome = IF HasContext(spans[s]) THEN "ok" ELSE "unspecified",
                  !.value = IF HasContext(spans[s])
                            THEN <<SamplerIsSample(spans[s].traceId)>>
                            ELSE UndefinedString]
    /\ UNCHANGED <<interface, spans, finished, recorded, carrier>>

\* record(span) calls the recorder with the span, whatever the span holds.
RecordForwards(span) == TRUE

\* The recorder's failure is raised out of record: there is no handler.
RecordOutcome(recorderFails) == IF recorderFails THEN "RecorderError" ELSE "ok"

Record(s, recorderFails) ==
    /\ s \in Handles
    /\ recorderFails \in BOOLEAN
    /\ Len(recorded) < MaxRecorded
    /\ LET forwards == RecordForwards(spans[s])
       IN /\ recorded' = IF forwards THEN Append(recorded, s) ELSE recorded
          /\ last' = [NoCall EXCEPT !.op = "record", !.span = s,
                        !.afterFinish = (s \in finished),
                        !.invoked = IF forwards THEN {"recorder"} ELSE {},
                        !.outcome = IF forwards THEN RecordOutcome(recorderFails) ELSE "ok"]
    /\ UNCHANGED <<interface, spans, finished, carrier>>

(* ---------------------------------------------------------------------- *)
(* Specification                                                           *)
(* ---------------------------------------------------------------------- *)
BaggageKeys == {KeyA, KeyOta}

SpanCalls ==
    \/ \E s \in Handles : SetOperationName(s)
    \/ \E s \in Handles : SetTag(s)
    \/ \E s \in Handles : AddTags(s)
    \/ \E s \in Handles : SetBaggageItem(s)
    \/ \E s \in Handles : Log(s)
    \/ \E s \in Handles, k \in BaggageKeys : GetBaggageItem(s, k)
    \/ \E s \in Handles : Finish(s)

\* Propagation: spans are started, injected into carriers and joined from them.
NextPropagation ==
    \/ SetInterface
    \/ \E p \in ParentArgs : StartSpan(p)
    \/ \E s \in Handles, f \in Formats, c \in InjectInputs : Inject(s, f, c)
    \/ \E f \in Formats, in \in JoinInputs, fresh \in FreshIds : Join(f, in, fresh)

SpecPropagation == Init /\ [][NextPropagation]_vars

\* Malformed input: join is handed every truncated and overlong carrier.
NextMalformed ==
    \/ SetInterface
    \/ \E f \in Formats, in \in MalformedJoinInputs : Join(f, in, IdMixed)

SpecMalformed == Init /\ [][NextMalformed]_vars

\* Life cycle: spans started here or joined from remote carriers are mutated,
\* finished, sampled and recorded.
Next ==
    \/ SetInterface
    \/ \E p \in ParentArgs : StartSpan(p)
    \/ \E in \in RemoteTextInputs : Join(FORMAT_TEXT_MAP, in, IdMixed)
    \/ \E s \in Handles, p \in {NoSpan} \cup Handles : IsSample(s, p)
    \/ \E s \in Handles, fails \in BOOLEAN : Record(s, fails)
    \/ SpanCalls

Spec == Init /\ [][Next]_vars

(* ---------------------------------------------------------------------- *)
(* Properties                                                              *)
(* ---------------------------------------------------------------------- *)
RecognizedFormats == {FORMAT_TEXT_MAP, FORMAT_BINARY}

MalformedKinds == {"missing", "truncated", "overlong"}

\* C1: Tracer.record forwards a span to the Recorder if and only if the span's
\* sampled flag is true: no span whose flag is false reaches Recorder.record,
\* and every span whose flag is true and that is handed to record does.
C1_RecordIffSampled ==
    /\ \A i \in 1..Len(recorded) : spans[recorded[i]].sampled # "false"
    /\ (last.op = "record" /\ spans[last.span].sampled = "true")
          => (Len(recorded) > 0 /\ recorded[Len(recorded)] = last.span)

\* C2: a context injected into an empty carrier with Tracer.inject and joined
\* from that carrier with the same format yields a span with the context's
\* traceId, the context's spanId as parentId, its sampled flag and its baggage;
\* the same holds of the carrier a remote tracer injected a context into.
C2_RoundTrip ==
    /\ (/\ last.op = "join" /\ last.input = "inflight"
        /\ carrier.by # NoSpan /\ carrier.input = "empty" /\ carrier.format = last.format)
          => /\ last.outcome = "ok"
             /\ last.ret # NoSpan
             /\ spans[last.ret].traceId = spans[carrier.by].traceId
             /\ spans[last.ret].parentId = spans[carrier.by].spanId
             /\ spans[last.ret].sampled = spans[carrier.by].sampled
             /\ spans[last.ret].baggage = spans[carrier.by].baggage
    /\ \A ctx \in RemoteContexts :
          (/\ last.op = "join" /\ last.input = "valid" /\ interface # Undefined
           /\ \/ last.format = FORMAT_TEXT_MAP /\ carrier = TextCarrierOf(ctx)
              \/ last.format = FORMAT_BINARY /\ carrier = BinaryCarrierOf(ctx))
             => /\ last.outcome = "ok"
                /\ last.ret # NoSpan
                /\ spans[last.ret].traceId = ctx.traceId
                /\ spans[last.ret].parentId = ctx.spanId
                /\ spans[last.ret].sampled = ctx.sampled
                /\ spans[last.ret].baggage = ctx.baggage

\* C2 witness: a span with two baggage items went through the binary format.
C2_Witness ==
    /\ last.op = "join" /\ last.input = "inflight" /\ last.format = FORMAT_BINARY
    /\ carrier.by # NoSpan /\ carrier.input = "empty" /\ carrier.format = FORMAT_BINARY
    /\ last.ret # NoSpan
    /\ spans[carrier.by].baggage = BaggageTwo

\* C3: the sampled flag is decided at root-span creation by the Sampler and
\* inherited by descendants: a span started without a parent has had the
\* Sampler consulted and carries a boolean flag, a span started with a parent
\* carries its parent's flag, and the Sampler is not consulted for it.
C3_SampledDecidedAtRoot ==
    /\ \A h \in Handles :
          spans[h].origin = "startSpan" =>
             IF spans[h].parentArg = NoSpan
             THEN spans[h].sampled \in {"true", "false"}
             ELSE spans[h].sampled = spans[spans[h].parentArg].sampled
    /\ last.op = "startSpan" => (("sampler" \in last.invoked) <=> (last.parent = NoSpan))

\* C4: a child span started with a parent can read every baggage item of its
\* parent, and setBaggageItem on a span changes no span.
C4_ChildCopiesBaggage ==
    /\ \A h \in Handles :
          (spans[h].origin = "startSpan" /\ spans[h].parentArg # NoSpan) =>
             \A k \in DOMAIN spans[spans[h].parentArg].baggage :
                GetBaggageItemResult(spans[h], k) = spans[spans[h].parentArg].baggage[k]
    /\ last.op = "setBaggageItem" => ~ last.changed

\* C5: inject and join with a format token that is neither FORMAT_TEXT_MAP nor
\* FORMAT_BINARY fail with UnsupportedFormat, invoke no codec and leave the
\* carrier unchanged.
C5_UnsupportedFormatFails ==
    (/\ last.op \in {"inject", "join"}
     /\ interface # Undefined
     /\ last.format \notin RecognizedFormats)
       => /\ last.outcome = "UnsupportedFormat"
          /\ last.invoked = {}
          /\ ~ last.changed

\* C6: join with a recognized format on a carrier whose trace identity is
\* missing or malformed returns a fresh root span carrying the operation name;
\* it returns no absent value and raises no error.
C6_JoinFallsBackToRoot ==
    (/\ last.op = "join"
     /\ interface # Undefined
     /\ last.format \in RecognizedFormats
     /\ last.input \in MalformedKinds)
       => /\ last.outcome = "ok"
          /\ last.ret # NoSpan
          /\ spans[last.ret].traceId # UndefinedId
          /\ spans[last.ret].parentId = UndefinedId
          /\ spans[last.ret].operationName = OperationB

\* C7: a failure of Recorder.record is not raised into the caller of
\* Tracer.record or of Span.finish, and a finished span is Finished.
C7_RecorderFailureIsolated ==
    /\ last.op \in {"record", "finish"} => last.outcome = "ok"
    /\ last.op = "finish" => last.span \in finished

C9_MalformedBinaryRejected ==
    (/\ last.op = "join"
     /\ interface # Undefined
     /\ last.format = FORMAT_BINARY
     /\ last.input \in MalformedKinds)
       => /\ last.outcome = "MalformedCarrier"
          /\ last.ret = NoSpan
          /\ last.top <= last.len
          /\ last.len = Len(carrier.buffer)

\* C9 witness: a buffer cut inside its baggage items was rejected after the
\* fixed-size fields had been read.
C9_Witness ==
    /\ last.op = "join" /\ last.format = FORMAT_BINARY /\ last.input = "truncated"
    /\ last.outcome = "MalformedCarrier"
    /\ last.len > CountPosition
    /\ last.top >= CountPosition

\* C10: before setInterface every inject and join raises and invokes no
\* propagator; afterwards FORMAT_TEXT_MAP invokes only the text-map propagator
\* and FORMAT_BINARY only the binary propagator.
C10_DispatchByInterface ==
    last.op \in {"inject", "join"} =>
       /\ interface = Undefined => (last.outcome = "TypeError" /\ last.invoked = {})
       /\ (interface # Undefined /\ last.format = FORMAT_TEXT_MAP) => last.invoked = {"text"}
       /\ (interface # Undefined /\ last.format = FORMAT_BINARY) => last.invoked = {"binary"}

\* C10 witness: inject was called on a span before any setInterface.
C10_Witness ==
    /\ last.op = "inject" /\ interface = Undefined
    /\ last.format = FORMAT_TEXT_MAP /\ last.outcome = "TypeError"

====
